---- MODULE Spec2Model ----
(***************************************************************************)
(* Photo-Collage-Generator: the batch pipeline of collage_generator.py    *)
(* (scan, split into groups, load, compose, export) and the generate-all  *)
(* worker of gui_app.py, as a state machine; the pure helpers             *)
(* split_into_groups and calculate_grid as operators.                     *)
(***************************************************************************)
EXTENDS Integers, Sequences, FiniteSets, TLC

\* ------------------------------------------------------------------ bounds
\* Files in the input folder (run model).
MaxFiles == 4
\* Largest images_per_collage (both models).
MaxGroupSize == 3
\* Longest input list handed to split_into_groups (pure model).
MaxLen == 5
\* Distinct references an input list is drawn from (pure model).
NumRefs == 3
\* Largest num_images handed to calculate_grid (pure model).
MaxN == 100
\* Largest side of an ordinary source image and of a crop target, in pixels.
MaxSide == 4
MaxTarget == 3
\* The long side of an extreme source image (1 x LongSide, LongSide x 1).
LongSide == 1000
\* Most image files in a folder handed to create_collage.
MaxCells == 7
\* create_collage is called again while the failure log is shorter than this.
MaxLog == 2
\* Files chosen in one file dialog; background threads alive at once.
MaxPick == 2
MaxWorkers == 2
\* Largest collage index whose file name is formed and read back.
MaxIndex == 120

None == "None"

Min(a, b) == IF a < b THEN a ELSE b

Max(a, b) == IF a > b THEN a ELSE b
Abs(x) == IF x < 0 THEN 0 - x ELSE x

CeilDiv(a, b) == (a + b - 1) \div b

\* All sequences over S of length 0..n.
SeqsUpTo(S, n) == UNION {[1..k -> S] : k \in 0..n}

\* ------------------------------------------------------- pure operators

\* Off by one: the slice stops one element early.
PySliceShort(s, a, b) == SubSeq(s, a + 1, Min(b, Len(s)) - 1)

\* images[a:b] for 0 <= a <= b: Python slicing clamps the stop at len(images).
PySlice(s, a, b) == SubSeq(s, a + 1, Min(b, Len(s)))

\* Off by one: range(0, n + 1, step).
RangeContinuesInclusive(i, n) == i <= n

\* range(0, n, step): the loop runs for i = 0, step, 2*step, ... while i < n.
RangeContinues(i, n) == i < n

RECURSIVE SplitFrom(_, _, _, _)
SplitFrom(images, i, group_size, groups) ==
    IF RangeContinues(i, Len(images))
    THEN SplitFrom(images, i + group_size, group_size,
                   Append(groups, PySlice(images, i, i + group_size)))
    ELSE groups

\* split_into_groups: groups = []; for i in range(0, len(images), group_size):
\* groups.append(images[i:i + group_size]).
SplitIntoGroups(images, group_size) == SplitFrom(images, 0, group_size, <<>>)

\* math.ceil(math.sqrt(n)): the least c with c*c >= n, searched upward.
RECURSIVE CeilSqrtFrom(_, _)
CeilSqrtFrom(n, c) == IF c * c >= n THEN c ELSE CeilSqrtFrom(n, c + 1)

\* int(math.sqrt(n)) in place of math.ceil(math.sqrt(n)).
FloorSqrt(n) ==
    LET c == CeilSqrtFrom(n, 0) IN IF c * c = n THEN c ELSE c - 1

CeilSqrt(n) == CeilSqrtFrom(n, 0)

\* while rows * cols < num_images: cols += 1
RECURSIVE GrowCols(_, _, _)
GrowCols(rows, cols, n) ==
    IF rows * cols < n THEN GrowCols(rows, cols + 1, n) ELSE cols

\* calculate_grid: (rows, cols) for num_images.
CalculateGrid(num_images) ==
    IF num_images <= 0
    THEN [rows |-> 0, cols |-> 0]
    ELSE LET cols == CeilSqrt(num_images)
             rows == CeilDiv(num_images, cols)
         IN  [rows |-> rows, cols |-> GrowCols(rows, cols, num_images)]

\* --------------------------------------------------------------- state

\* An image is known by its size only.
Image(w, h) == [width |-> w, height |-> h]

\* img_ratio > target_ratio, both ratios taken exactly.
IsWider(img, target) == img.width * target[2] > target[1] * img.height

\* The crop box (left, upper, right, lower) that is cut from the whole width.
CropFullWidth(img, target) ==
    LET new_height == (img.width * target[2]) \div target[1]
        top == (img.height - new_height) \div 2
    IN  <<0, top, img.width, top + new_height>>

CropFullHeight(img, target) ==
    LET new_width == (img.height * target[1]) \div target[2]
        left == (img.width - new_width) \div 2
    IN  <<left, 0, left + new_width, img.height>>

\* smart_crop: the box cut out of img, and the size it is resampled to.
SmartCrop(img, target) ==
    [box  |-> IF IsWider(img, target) THEN CropFullHeight(img, target)
                                      ELSE CropFullWidth(img, target),
     size |-> Image(target[1], target[2])]

VARIABLES
    mode,               \* "core": generate_all_collages; "gui": _generate_collage_thread
    png_var, jpg_var,   \* the GUI's export toggles (both on in the core)
    folder,             \* the input: file k has kind folder[k]
    images_per_collage, \* settings.images_per_collage
    pc,                 \* position of the run
    images,             \* the scanned list (self.photos in the GUI)
    groups,             \* the partition
    gi,                 \* i of "for i, group in enumerate(groups, 1)"
    li,                 \* references of the current group already attempted
    loaded,             \* loaded_images of the current create_collage call
    canvas,             \* the collage create_collage returned, or None
    failed_images,      \* generator.failed_images
    successful,         \* the counter "successful"
    outputs,            \* files written: <<index, format>>
    files,              \* the output folder: file name -> the group it holds
    out_dir,            \* the output folder has been created
    events,             \* history: the steps taken, in order
    fn, arg, res,       \* pure model: the function applied, its input, its result
    settings,           \* generator.settings; in the menu loop, main()'s settings
    mask_file,          \* whether the file at custom_mask_path can be read
    call,               \* the arguments of the current create_collage call
    cpc,                \* position inside create_collage
    loaded_images,      \* its local list loaded_images
    plan,               \* its grid, cell size, content size and shadow margin
    placed,             \* the cells pasted on its canvas, in order
    alpha,              \* the masks put on its canvas as alpha, in order
    warnings,           \* the warnings the current call printed
    returned,           \* history: the last two calls and what they returned
    mpc,                \* main(): position of the menu loop
    ran,                \* history: the last run_generator call of the menu loop
    photos,             \* CollageGeneratorGUI.photos: the chosen paths
    photo_listbox,      \* the rows of the listbox
    selection,          \* photo_listbox.curselection(), 0-based rows
    shape_needs_mask,   \* shape "custom" is chosen and no mask file is set
    is_generating,      \* CollageGeneratorGUI.is_generating
    workers             \* the background threads that are alive

runVars == <<mode, png_var, jpg_var, folder, images_per_collage, pc, images,
             groups, gi, li, loaded, canvas, failed_images, successful,
             outputs, files, out_dir, events>>
pureVars == <<fn, arg, res>>
composeVars == <<settings, mask_file, call, cpc, loaded_images, plan, placed,
                 alpha, warnings, returned>>
menuVars == <<mpc, ran>>
guiVars == <<photos, photo_listbox, selection, shape_needs_mask,
            is_generating, workers>>
vars == <<mode, png_var, jpg_var, folder, images_per_collage, pc, images,
          groups, gi, li, loaded, canvas, failed_images, successful,
          outputs, files, out_dir, events, fn, arg, res, settings, mask_file,
          call, cpc, loaded_images, plan, placed, alpha, warnings, returned,
          mpc, ran, photos, photo_listbox, selection, shape_needs_mask,
          is_generating, workers>>

\* A file of the input folder: a decodable image, an image file that does
\* not decode, or a file whose extension is not a supported image format.
Kinds == {"ok", "corrupt", "other"}

Decodable(ref) == folder[ref] = "ok"

\* suffix.lower() in SUPPORTED_FORMATS
SupportedFormat(kind) == kind # "other"

\* scan_folder: the files with a supported extension, in sorted order.
RECURSIVE ScanFrom(_, _, _)
ScanFrom(dir, k, found) ==
    IF k > Len(dir) THEN found
    ELSE ScanFrom(dir, k + 1,
                  IF SupportedFormat(dir[k]) THEN Append(found, k) ELSE found)

ScanFolder(dir) == ScanFrom(dir, 1, <<>>)

\* The emptiness check left out.
NoInputUnchecked(list) == FALSE

\* "if not images: ... return" (core) and "if not self.photos: ... return" (GUI).
NoInput(list) == Len(list) = 0

\* The failure swallowed without logging the reference.
LoadImageUnlogged(ref) ==
    IF folder[ref] = "ok"
    THEN [img |-> <<ref>>, log |-> <<>>]
    ELSE [img |-> <<>>, log |-> <<>>]

\* load_image_safely: the image, or None with the reference logged.
LoadImageSafely(ref) ==
    IF Decodable(ref)
    THEN [img |-> <<ref>>, log |-> <<>>]
    ELSE [img |-> <<>>, log |-> <<ref>>]

\* The "if not loaded_images" check left out.
NothingLoadedUnchecked(imgs) == FALSE

\* create_collage after the load loop: None when nothing loaded.
NothingLoaded(imgs) == Len(imgs) = 0

\* No handler around the group in either loop.
OnGroupErrorUncaught(m) == "aborted"

\* An exception raised by a write while one group is exported: the core loop
\* has no handler (the exception leaves generate_all_collages and the run
\* ends without its report), the GUI worker catches it per group and goes on
\* to the progress update.
OnGroupError(m) == IF m = "core" THEN "aborted" ELSE "group_end"

\* enumerate(groups, 1): the first index and the index after i.
FirstIndex == 1
\* The loop index stepping back to a group already processed.
AdvanceBack(i) == IF i > 1 THEN i - 1 ELSE i + 1
Advance(i) == i + 1

\* The decimal digits of n >= 0, most significant first.
RECURSIVE Digits(_)
Digits(n) == IF n < 10 THEN <<n>> ELSE Append(Digits(n \div 10), n % 10)

\* Zero-padding on the left to at least w digits.
RECURSIVE ZeroPad(_, _)
ZeroPad(d, w) == IF Len(d) < w THEN ZeroPad(<<0>> \o d, w) ELSE d

\* One name for every group: the index left out of the name.
BaseNameFixed(index) == [prefix |-> "collage_", digits |-> <<0, 1>>]

\* base_name = f"collage_{index:02d}"
BaseName(index) == [prefix |-> "collage_", digits |-> ZeroPad(Digits(index), 2)]

\* output_folder / f"{base_name}.png", output_folder / f"{base_name}.jpg"
FileName(index, ext) == [base |-> BaseName(index), ext |-> ext]

\* Saving under a name replaces whatever file had that name.
WriteFile(dir, name, g) ==
    {f \in dir : f.name # name} \cup {[name |-> name, g |-> g]}

\* No collage: create_collage returned None, or has not returned.
NoCanvas == [made |-> FALSE, grid |-> [rows |-> 0, cols |-> 0], cells |-> <<>>]
Canvas(imgs) == [made |-> TRUE, grid |-> CalculateGrid(Len(imgs)), cells |-> imgs]

\* A step of the run: the group index, the step, its value (the reference
\* loaded, the number of cells placed) and whether it succeeded.
Event(g, step, val, ok) == [g |-> g, step |-> step, val |-> val, ok |-> ok]

\* ------------------------------------------------- create_collage, in detail

Shapes == {"square", "rectangle", "circle", "heart", "custom"}

\* CollageSettings(): the field defaults of the dataclass.
DefaultSettings ==
    [canvas_size |-> <<3000, 3000>>,
     outer_frame_thickness |-> 20,
     inner_spacing |-> 5,
     rounded_corners_radius |-> 10,
     enable_rounded_corners |-> TRUE,
     enable_drop_shadow |-> TRUE,
     shadow_offset |-> <<5, 5>>,
     shadow_blur |-> 10,
     images_per_collage |-> 50,
     shape |-> "square",
     custom_mask_path |-> None]

\* "if custom_mask_path": None and the empty string are both false.
Truthy(path) == path # None /\ path # ""

\* The content size and the shadow margin of the degenerate-size fallback.
MinContentSize == 10
FallbackMargin == 10
FallbackPadding == 5

\* The fallback taken only when both axes are used up.
NeedsFallbackBoth(img_w, img_h) == img_w <= 0 /\ img_h <= 0

\* "if img_w <= 0 or img_h <= 0"
NeedsFallback(img_w, img_h) == img_w <= 0 \/ img_h <= 0

\* The fallback content size without its floor.
FallbackSizeUnclamped(cell) == cell - FallbackMargin

\* "max(10, cell_w - 10)": the content size of the fallback on one axis.
FallbackSize(cell) == Max(MinContentSize, cell - FallbackMargin)

\* Lines 226-249: the grid, the cell size, the content size of one image and
\* the shadow margin, from the Settings and the number of loaded images.
PlanCells(st, n) ==
    LET grid == CalculateGrid(n)
        canvas_w == st.canvas_size[1]
        canvas_h == st.canvas_size[2]
        frame == st.outer_frame_thickness
        spacing == st.inner_spacing
        usable_w == canvas_w - (2 * frame) - ((grid.cols - 1) * spacing)
        usable_h == canvas_h - (2 * frame) - ((grid.rows - 1) * spacing)
        cell_w == usable_w \div grid.cols
        cell_h == usable_h \div grid.rows
        shadow_padding ==
            IF st.enable_drop_shadow
            THEN st.shadow_blur + Max(Abs(st.shadow_offset[1]), Abs(st.shadow_offset[2]))
            ELSE 0
        img_w == cell_w - (2 * shadow_padding)
        img_h == cell_h - (2 * shadow_padding)
        fallback == NeedsFallback(img_w, img_h)
    IN  [rows |-> grid.rows, cols |-> grid.cols,
         cell_w |-> cell_w, cell_h |-> cell_h,
         img_w |-> IF fallback THEN FallbackSize(cell_w) ELSE img_w,
         img_h |-> IF fallback THEN FallbackSize(cell_h) ELSE img_h,
         shadow_padding |-> IF fallback THEN FallbackPadding ELSE shadow_padding,
         fallback |-> fallback]

\* The fallback written back into the Settings.
SettingsWithFallback(st, pl) ==
    IF pl.fallback THEN [st EXCEPT !.shadow_blur = pl.shadow_padding] ELSE st

\* Lines 226-249 assign locals only (canvas_w, ..., img_w, img_h,
\* shadow_padding): self.settings is read, never written.
SettingsAfterPlan(st, pl) == st

NoPlan ==
    [rows |-> 0, cols |-> 0, cell_w |-> 0, cell_h |-> 0, img_w |-> 0,
     img_h |-> 0, shadow_padding |-> 0, fallback |-> FALSE]

\* add_rounded_corners: the alpha is replaced, the size is kept.
AddRoundedCorners(img, radius) == Image(img.width, img.height)

\* A shadow that grows the image by the signed offset.
AddDropShadowSigned(img, offset, blur) ==
    Image(img.width + offset[1] + blur * 2, img.height + offset[2] + blur * 2)

\* add_drop_shadow: the size of the image it returns (shadow_size).
AddDropShadow(img, offset, blur) ==
    Image(img.width + Abs(offset[1]) + blur * 2,
          img.height + Abs(offset[2]) + blur * 2)

\* Every decoded photo of this model has one size, large enough for smart_crop
\* to cut a non-empty box for every content size plned here.
PhotoWidth == 4000
PhotoHeight == 3000
Photo == Image(PhotoWidth, PhotoHeight)

\* Lines 257-271: the image pasted into a cell.
ProcessCell(st, pl) ==
    LET cropped == SmartCrop(Photo, <<pl.img_w, pl.img_h>>).size
        rounded == IF st.enable_rounded_corners
                   THEN AddRoundedCorners(cropped, st.rounded_corners_radius)
                   ELSE cropped
    IN  IF st.enable_drop_shadow
        THEN AddDropShadow(rounded, st.shadow_offset, st.shadow_blur)
        ELSE rounded

\* "(cell_w - processed_img.width) // 2": the offset of the pasted image
\* inside its cell.
Centre(cell, pasted) == (cell - pasted) \div 2

\* The cells filled column by column.
CellOfColumnMajor(idx, cols) == [row |-> idx % cols, col |-> idx \div cols]

\* "row = idx // cols" and "col = idx % cols".
CellOf(idx, cols) == [row |-> idx \div cols, col |-> idx % cols]

\* Lines 253-276 for one idx (0-based): the cell, the pasted image and where
\* it is pasted.
PlaceCell(st, pl, idx, img) ==
    LET row == CellOf(idx, pl.cols).row
        col == CellOf(idx, pl.cols).col
        processed_img == ProcessCell(st, pl)
        frame == st.outer_frame_thickness
        spacing == st.inner_spacing
    IN  [img |-> img, idx |-> idx, row |-> row, col |-> col,
         content |-> <<pl.img_w, pl.img_h>>,
         width |-> processed_img.width, height |-> processed_img.height,
         x |-> frame + col * (pl.cell_w + spacing)
                 + Centre(pl.cell_w, processed_img.width),
         y |-> frame + row * (pl.cell_h + spacing)
                 + Centre(pl.cell_h, processed_img.height)]

\* A single-channel mask: a blank (all 0) image of the given size with the
\* shapes drawn on it in order, or an image read from a file and resized.
DrawnMask(size, ops) == [size |-> size, from |-> "drawn", ops |-> ops, path |-> None]
FileMask(size, path) == [size |-> size, from |-> "file", ops |-> <<>>, path |-> path]
Draw(op, at) == [op |-> op, at |-> at, fill |-> 255]

\* draw.rectangle([(0, 0), size], fill=255)
FullRectangle(size) == Draw("rectangle", <<0, 0, size[1], size[2]>>)

\* The except branch that only prints the warning.
MaskLoadFailedBlank(size) == <<>>

\* The except branch of the custom mask: the whole mask drawn opaque.
MaskLoadFailed(size) == <<FullRectangle(size)>>

\* create_shape_mask: the mask, and the warning printed if any. file is "ok"
\* when the file at custom_mask_path opens, converts and resizes, else "bad".
CreateShapeMask(size, shape, custom_mask_path, file) ==
    IF shape \in {"square", "rectangle"}
    THEN [mask |-> DrawnMask(size, <<FullRectangle(size)>>), warn |-> <<>>]
    ELSE IF shape = "circle"
    THEN LET min_dim == Min(size[1], size[2])
             cx == size[1] \div 2
             cy == size[2] \div 2
             radius == min_dim \div 2
         IN  [mask |-> DrawnMask(size, <<Draw("ellipse",
                           <<cx - radius, cy - radius, cx + radius, cy + radius>>)>>),
              warn |-> <<>>]
    ELSE IF shape = "heart"
    THEN [mask |-> DrawnMask(size, <<Draw("polygon", size)>>), warn |-> <<>>]
    ELSE IF shape = "custom" /\ Truthy(custom_mask_path)
    THEN IF file = "ok"
         THEN [mask |-> FileMask(size, custom_mask_path), warn |-> <<>>]
         ELSE [mask |-> DrawnMask(size, MaskLoadFailed(size)),
               warn |-> <<"Could not load custom mask, using square">>]
    ELSE [mask |-> DrawnMask(size, <<>>), warn |-> <<>>]

\* The mask put on every canvas.
NeedsMaskAlways(shape) == TRUE

\* "if self.settings.shape != SQUARE and self.settings.shape != RECTANGLE"
NeedsMask(shape) == shape # "square" /\ shape # "rectangle"

\* Every pixel of the mask is 255: a filled rectangle was drawn over all of it.
Opaque(mask) ==
    /\ mask.from = "drawn"
    /\ \E k \in DOMAIN mask.ops :
         /\ mask.ops[k].op = "rectangle"
         /\ mask.ops[k].fill = 255
         /\ mask.ops[k].at[1] <= 0 /\ mask.ops[k].at[2] <= 0
         /\ mask.ops[k].at[3] >= mask.size[1] - 1
         /\ mask.ops[k].at[4] >= mask.size[2] - 1

\* Every pixel of the mask is 0: nothing was drawn on the blank image.
Blank(mask) == mask.from = "drawn" /\ mask.ops = <<>>

\* "loaded_images = []" at the start of create_collage.
KeptLoaded == loaded_images
EmptyLoaded == <<>>

\* Lines 214-217: the images loaded from refs[k..], and the references logged.
RECURSIVE LoadAll(_, _)
LoadAll(refs, k) ==
    IF k > Len(refs) THEN [img |-> <<>>, log |-> <<>>]
    ELSE LET r == LoadImageSafely(refs[k])
             rest == LoadAll(refs, k + 1)
         IN  [img |-> r.img \o rest.img, log |-> r.log \o rest.log]

\* The last two entries of a history.
LastTwo(h) == IF Len(h) > 2 THEN SubSeq(h, Len(h) - 1, Len(h)) ELSE h

\* What create_collage returns: None, or the canvas.
NoCollage == [made |-> FALSE, size |-> <<0, 0>>, cells |-> <<>>, alpha |-> <<>>]
Collage(size, cells, masks) ==
    [made |-> TRUE, size |-> size, cells |-> cells, alpha |-> masks]

\* A small canvas without shadow.
SmallGeometry ==
    [canvas_size |-> <<90, 60>>, outer_frame_thickness |-> 2,
     inner_spacing |-> 1, enable_drop_shadow |-> FALSE,
     shadow_offset |-> <<5, 5>>, shadow_blur |-> 10, enable_rounded_corners |-> FALSE]

\* The geometry a generator is constructed with: the defaults, and small
\* canvases with and without shadow, with offsets of either sign, with a
\* shadow wider than the cell, with a frame wider than the canvas, and with a
\* negative frame and spacing.
Geometries ==
    {[canvas_size |-> DefaultSettings.canvas_size,
      outer_frame_thickness |-> DefaultSettings.outer_frame_thickness,
      inner_spacing |-> DefaultSettings.inner_spacing,
      enable_drop_shadow |-> DefaultSettings.enable_drop_shadow,
      shadow_offset |-> DefaultSettings.shadow_offset,
      shadow_blur |-> DefaultSettings.shadow_blur,
      enable_rounded_corners |-> DefaultSettings.enable_rounded_corners],
     SmallGeometry,
     [SmallGeometry EXCEPT !.enable_drop_shadow = TRUE, !.shadow_offset = <<0 - 3, 2>>,
                           !.shadow_blur = 1, !.enable_rounded_corners = TRUE],
     [SmallGeometry EXCEPT !.enable_drop_shadow = TRUE, !.shadow_offset = <<2, 0 - 3>>,
                           !.shadow_blur = 0, !.outer_frame_thickness = 0,
                           !.inner_spacing = 0],
     [SmallGeometry EXCEPT !.enable_drop_shadow = TRUE, !.enable_rounded_corners = TRUE],
     [SmallGeometry EXCEPT !.canvas_size = <<16, 16>>, !.outer_frame_thickness = 10,
                           !.inner_spacing = 3],
     [SmallGeometry EXCEPT !.outer_frame_thickness = 0 - 1, !.inner_spacing = 0 - 2]}

\* The silhouette and the mask path.
Silhouettes ==
    {[shape |-> sh, custom_mask_path |-> None] : sh \in Shapes}
      \cup {[shape |-> "custom", custom_mask_path |-> p] : p \in {"", "mask.png"}}

PlainSilhouette == [shape |-> DefaultSettings.shape, custom_mask_path |-> None]

WithGeometry(g, sil) ==
    [DefaultSettings EXCEPT
        !.canvas_size = g.canvas_size,
        !.outer_frame_thickness = g.outer_frame_thickness,
        !.inner_spacing = g.inner_spacing,
        !.enable_drop_shadow = g.enable_drop_shadow,
        !.shadow_offset = g.shadow_offset,
        !.shadow_blur = g.shadow_blur,
        !.enable_rounded_corners = g.enable_rounded_corners,
        !.shape = sil.shape,
        !.custom_mask_path = sil.custom_mask_path]

\* Every geometry with the default silhouette, and every silhouette on the
\* small canvas.
ComposeSettings ==
    {WithGeometry(g, PlainSilhouette) : g \in Geometries}
        \cup {WithGeometry(SmallGeometry, sil) : sil \in Silhouettes}

\* Folders of image files: all readable, all but the second readable, and
\* short ones with any files unreadable.
ComposeFolders ==
    {[i \in 1..n |-> "ok"] : n \in 1..MaxCells}
        \cup {[i \in 1..(n + 1) |-> IF i = 2 THEN "corrupt" ELSE "ok"] : n \in 1..MaxCells}
        \cup SeqsUpTo({"ok", "corrupt"}, MaxGroupSize)

\* The references i..j of the folder, in order.
Refs(i, j) == [k \in 1..(j + 1 - i) |-> k + i - 1]

\* No run_generator call yet.
NoRun ==
    [choice |-> "none", settings |-> DefaultSettings, outcome |-> "none",
     split_ran |-> FALSE, group_size |-> 0, groups |-> 0]

\* --------------------------------------------------------- the GUI window
\* A path is its sequence of components; the last one is a file name with
\* its stem and its suffix.
File(dir, stem, ext) == <<dir, [stem |-> stem, ext |-> ext]>>

\* Path(file_path).name
PathName(path) == path[Len(path)]

\* file_path.suffix.lower()
Suffix(path) == PathName(path).ext

\* image_extensions of add_folder
ImageExtensions == {".jpg", ".jpeg", ".png", ".gif", ".bmp", ".webp", ".tiff"}

\* The files on disk, each folder's in sorted order.
Disk ==
    <<File("a", "x", ".jpg"), File("a", "y", ".png"), File("a", "z", ".txt"),
      File("b", "x", ".jpg")>>

Folders == {Disk[k][1] : k \in DOMAIN Disk}

\* sorted(folder_path.iterdir())
Listing(dir) == LET InDir(path) == path[1] = dir IN SelectSeq(Disk, InDir)

IsIn(x, seq) == \E k \in DOMAIN seq : seq[k] = x

ListboxInsertFirst(rows, name) == <<name>> \o rows

\* photo_listbox.insert(tk.END, name)
ListboxInsertEnd(rows, name) == Append(rows, name)

\* if file_path not in self.photos: append it and insert its name
AddOne(st, path) ==
    IF IsIn(path, st.photos) THEN st
    ELSE [photos |-> Append(st.photos, path),
          rows |-> ListboxInsertEnd(st.rows, PathName(path))]

\* for file_path in files: ...
RECURSIVE AddEach(_, _)
AddEach(st, paths) ==
    IF paths = <<>> THEN st
    ELSE AddEach(AddOne(st, Head(paths)), Tail(paths))

\* del seq[index], index counted from 0
DeleteAt(seq, index) ==
    [k \in 1..(Len(seq) - 1) |-> IF k <= index THEN seq[k] ELSE seq[k + 1]]

\* for index in reversed(selection): delete the row, and the photo when
\* index < len(self.photos)
RECURSIVE RemoveRows(_, _)
RemoveRows(st, sel) ==
    IF sel = {} THEN st
    ELSE LET index == CHOOSE i \in sel : \A j \in sel : j <= i
             next == [photos |-> IF index < Len(st.photos)
                                   THEN DeleteAt(st.photos, index)
                                   ELSE st.photos,
                      rows |-> DeleteAt(st.rows, index)]
         IN  RemoveRows(next, sel \ {index})

FinallyKeepsFlag(flag) == flag

\* finally: self.is_generating = False
FinallyResetsFlag(flag) == FALSE

\* A background thread: what it runs, where it is, whether its body raised.
Worker(kind, at, raised) == [kind |-> kind, pc |-> at, raised |-> raised]

SetsBusy(kind) == kind \in {"preview", "generate"}

Without(seq, i) == [k \in 1..(Len(seq) - 1) |-> IF k < i THEN seq[k] ELSE seq[k + 1]]

GuiIdle ==
    /\ photos = <<>> /\ photo_listbox = <<>> /\ selection = {}
    /\ shape_needs_mask = FALSE /\ is_generating = FALSE /\ workers = <<>>

MenuIdle == mpc = "off" /\ ran = NoRun

ComposeIdle ==
    /\ settings = DefaultSettings /\ mask_file = "bad"
    /\ call = [images |-> <<>>, collage_index |-> 0]
    /\ cpc = "off" /\ loaded_images = <<>> /\ plan = NoPlan
    /\ placed = <<>> /\ alpha = <<>> /\ warnings = <<>> /\ returned = <<>>

\* ---------------------------------------------------------------- Init
\* The result slot of the pure model: empty before the function is applied.
Unset == [set |-> FALSE, val |-> None]
Result(v) == [set |-> TRUE, val |-> v]

PureIdle == fn = "none" /\ arg = <<>> /\ res = Unset

Init ==
    /\ mode \in {"core", "gui"}
    /\ png_var \in BOOLEAN
    /\ jpg_var \in BOOLEAN
    /\ (mode = "core" => png_var /\ jpg_var)
    /\ folder \in SeqsUpTo(Kinds, MaxFiles)
    /\ images_per_collage \in 1..MaxGroupSize
    /\ pc = "start"
    /\ images = <<>>
    /\ groups = <<>>
    /\ gi = 0
    /\ li = 0
    /\ loaded = <<>>
    /\ canvas = NoCanvas
    /\ failed_images = <<>>
    /\ successful = 0
    /\ outputs = {}
    /\ files = {}
    /\ out_dir = FALSE
    /\ events = <<>>
    /\ PureIdle
    /\ ComposeIdle
    /\ MenuIdle
    /\ GuiIdle

\* ------------------------------------------------------------- actions

\* generate_all_collages up to the loop / _generate_collage_thread up to the loop
\* (with generate_collage's guard on an empty photo list).
Start ==
    /\ pc = "start"
    /\ LET scanned == ScanFolder(folder)
           parts == SplitIntoGroups(scanned, images_per_collage)
       IN  /\ images' = scanned
           /\ IF NoInput(scanned)
              THEN /\ pc' = "no_input"
                   /\ UNCHANGED <<groups, gi, out_dir, successful>>
              ELSE /\ groups' = parts
                   /\ out_dir' = TRUE
                   /\ successful' = 0
                   /\ IF Len(parts) = 0
                      THEN pc' = "report" /\ gi' = gi
                      ELSE pc' = "load" /\ gi' = FirstIndex
    /\ li' = 0
    /\ loaded' = <<>>
    /\ UNCHANGED <<mode, png_var, jpg_var, folder, images_per_collage, canvas,
                   failed_images, outputs, files, events>>
    /\ UNCHANGED <<pureVars, composeVars, menuVars, guiVars>>

\* One iteration of "for img_path in images" in create_collage.
LoadImage ==
    /\ pc = "load"
    /\ li < Len(groups[gi])
    /\ LET ref == groups[gi][li + 1]
           r == LoadImageSafely(ref)
       IN  /\ loaded' = loaded \o r.img
           /\ failed_images' = failed_images \o r.log
           /\ events' = Append(events, Event(gi, "load", ref, r.log = <<>>))
    /\ li' = li + 1
    /\ pc' = IF li + 1 = Len(groups[gi]) THEN "compose" ELSE "load"
    /\ UNCHANGED <<mode, png_var, jpg_var, folder, images_per_collage, images,
                   groups, gi, canvas, successful, outputs, files, out_dir>>
    /\ UNCHANGED <<pureVars, composeVars, menuVars, guiVars>>

\* The rest of create_collage and the caller's "if collage:".
Compose ==
    /\ pc = "compose"
    /\ IF NothingLoaded(loaded)
       THEN /\ canvas' = NoCanvas
            /\ pc' = "group_end"
            /\ events' = Append(events, Event(gi, "empty", 0, TRUE))
       ELSE /\ canvas' = Canvas(loaded)
            /\ pc' = "png"
            /\ events' = Append(events, Event(gi, "compose", Len(loaded), TRUE))
    /\ UNCHANGED <<mode, png_var, jpg_var, folder, images_per_collage, images,
                   groups, gi, li, loaded, failed_images, successful, outputs,
                   files, out_dir>>
    /\ UNCHANGED <<pureVars, composeVars, menuVars, guiVars>>

\* The PNG write of save_collage / of the GUI worker (when its toggle is on).
ExportPng ==
    /\ pc = "png"
    /\ IF png_var
       THEN \E ok \in BOOLEAN :
              /\ events' = Append(events, Event(gi, "png", 0, ok))
              /\ outputs' = IF ok THEN outputs \cup {<<gi, "png">>} ELSE outputs
              /\ files' = IF ok THEN WriteFile(files, FileName(gi, "png"), gi)
                                 ELSE files
              /\ pc' = IF ok THEN "jpg" ELSE OnGroupError(mode)
       ELSE /\ pc' = "jpg"
            /\ UNCHANGED <<events, outputs, files>>
    /\ UNCHANGED <<mode, png_var, jpg_var, folder, images_per_collage, images,
                   groups, gi, li, loaded, canvas, failed_images, successful,
                   out_dir>>
    /\ UNCHANGED <<pureVars, composeVars, menuVars, guiVars>>

\* The JPG write, then "successful += 1".
ExportJpg ==
    /\ pc = "jpg"
    /\ IF jpg_var
       THEN \E ok \in BOOLEAN :
              /\ events' = Append(events, Event(gi, "jpg", 0, ok))
              /\ outputs' = IF ok THEN outputs \cup {<<gi, "jpg">>} ELSE outputs
              /\ files' = IF ok THEN WriteFile(files, FileName(gi, "jpg"), gi)
                                 ELSE files
              /\ pc' = IF ok THEN "group_end" ELSE OnGroupError(mode)
              /\ successful' = IF ok THEN successful + 1 ELSE successful
       ELSE /\ pc' = "group_end"
            /\ successful' = successful + 1
            /\ UNCHANGED <<events, outputs, files>>
    /\ UNCHANGED <<mode, png_var, jpg_var, folder, images_per_collage, images,
                   groups, gi, li, loaded, canvas, failed_images, out_dir>>
    /\ UNCHANGED <<pureVars, composeVars, menuVars, guiVars>>

\* The end of one loop iteration: the GUI's progress update, then the next
\* group or the end of the loop.
GroupEnd ==
    /\ pc = "group_end"
    /\ events' = IF mode = "gui"
                 THEN Append(events, Event(gi, "progress", 0, TRUE))
                 ELSE events
    /\ IF gi < Len(groups)
       THEN /\ gi' = Advance(gi)
            /\ pc' = "load"
       ELSE /\ gi' = gi
            /\ pc' = "report"
    /\ li' = 0
    /\ loaded' = <<>>
    /\ canvas' = NoCanvas
    /\ UNCHANGED <<mode, png_var, jpg_var, folder, images_per_collage, images,
                   groups, failed_images, successful, outputs, files, out_dir>>
    /\ UNCHANGED <<pureVars, composeVars, menuVars, guiVars>>

\* "GENERATION COMPLETE ... Total collages generated" / the GUI's "Complete!".
Report ==
    /\ pc = "report"
    /\ pc' = "done"
    /\ UNCHANGED <<mode, png_var, jpg_var, folder, images_per_collage, images,
                   groups, gi, li, loaded, canvas, failed_images, successful,
                   outputs, files, out_dir, events>>
    /\ UNCHANGED <<pureVars, composeVars, menuVars, guiVars>>

Next ==
    \/ Start
    \/ LoadImage
    \/ Compose
    \/ ExportPng
    \/ ExportJpg
    \/ GroupEnd
    \/ Report

Spec == Init /\ [][Next]_vars

\* generate_all_collages is called again on the generator whose earlier call
\* has returned: its locals start afresh, the generator keeps its fields
\* (failed_images is assigned in __init__ only).
InvokeAgain ==
    /\ mode = "core"
    /\ pc \in {"done", "no_input"}
    /\ Len(failed_images) < MaxLog
    /\ pc' = "start"
    /\ images' = <<>> /\ groups' = <<>> /\ gi' = 0 /\ li' = 0
    /\ loaded' = <<>> /\ canvas' = NoCanvas /\ successful' = 0
    /\ outputs' = {} /\ events' = <<>>
    /\ UNCHANGED <<mode, png_var, jpg_var, folder, images_per_collage,
                   failed_images, files, out_dir>>
    /\ UNCHANGED <<pureVars, composeVars, menuVars, guiVars>>

NextReuse ==
    \/ Next
    \/ InvokeAgain

\* One generator, any number of generate_all_collages calls in turn.
SpecReuse == Init /\ [][NextReuse]_vars

\* ------------------------------------------------- the pure functions
\* The run is idle; one function is applied to one input.
RunIdle ==
    /\ mode = "core" /\ png_var = TRUE /\ jpg_var = TRUE
    /\ folder = <<>> /\ images_per_collage = 1
    /\ pc = "idle" /\ images = <<>> /\ groups = <<>>
    /\ gi = 0 /\ li = 0 /\ loaded = <<>> /\ canvas = NoCanvas
    /\ failed_images = <<>> /\ successful = 0 /\ outputs = {} /\ files = {}
    /\ out_dir = FALSE /\ events = <<>>

SplitInputs ==
    {[images |-> s, group_size |-> g] :
        s \in SeqsUpTo(1..NumRefs, MaxLen), g \in 1..MaxGroupSize}

GridInputs == {[num_images |-> n] : n \in 0..MaxN}

SourceSizes ==
    {Image(w, h) : w \in 1..MaxSide, h \in 1..MaxSide}
        \cup {Image(1, LongSide), Image(LongSide, 1)}

CropInputs ==
    {[img |-> i, target |-> <<w, h>>] :
        i \in SourceSizes, w \in 1..MaxTarget, h \in 1..MaxTarget}

InitPure ==
    /\ RunIdle
    /\ ComposeIdle
    /\ MenuIdle
    /\ GuiIdle
    /\ res = Unset
    /\ \/ fn = "split_into_groups" /\ arg \in SplitInputs
       \/ fn = "calculate_grid" /\ arg \in GridInputs
       \/ fn = "smart_crop" /\ arg \in CropInputs

ApplySplit ==
    /\ fn = "split_into_groups"
    /\ ~res.set
    /\ res' = Result(SplitIntoGroups(arg.images, arg.group_size))
    /\ UNCHANGED <<fn, arg>>
    /\ UNCHANGED <<runVars, composeVars, menuVars, guiVars>>

ApplyGrid ==
    /\ fn = "calculate_grid"
    /\ ~res.set
    /\ res' = Result(CalculateGrid(arg.num_images))
    /\ UNCHANGED <<fn, arg>>
    /\ UNCHANGED <<runVars, composeVars, menuVars, guiVars>>

ApplySmartCrop ==
    /\ fn = "smart_crop"
    /\ ~res.set
    /\ res' = Result(SmartCrop(arg.img, arg.target))
    /\ UNCHANGED <<fn, arg>>
    /\ UNCHANGED <<runVars, composeVars, menuVars, guiVars>>

NextPure ==
    \/ ApplySplit
    \/ ApplyGrid
    \/ ApplySmartCrop

SpecPure == InitPure /\ [][NextPure]_vars

RunIdleFor(dir) ==
    /\ mode = "core" /\ png_var = TRUE /\ jpg_var = TRUE
    /\ folder = dir /\ images_per_collage = 1
    /\ pc = "idle" /\ images = <<>> /\ groups = <<>>
    /\ gi = 0 /\ li = 0 /\ loaded = <<>> /\ canvas = NoCanvas
    /\ failed_images = <<>> /\ successful = 0 /\ outputs = {} /\ files = {}
    /\ out_dir = FALSE /\ events = <<>>

InitCompose ==
    /\ \E dir \in ComposeFolders : RunIdleFor(dir)
    /\ PureIdle
    /\ settings \in ComposeSettings
    /\ mask_file \in IF Truthy(settings.custom_mask_path) THEN {"ok", "bad"} ELSE {"bad"}
    /\ call = [images |-> <<>>, collage_index |-> 0]
    /\ cpc = "idle" /\ loaded_images = <<>> /\ plan = NoPlan
    /\ placed = <<>> /\ alpha = <<>> /\ warnings = <<>> /\ returned = <<>>
    /\ MenuIdle
    /\ GuiIdle

\* create_collage(images, collage_index) is called with the whole folder (as
\* the GUI preview does) or with the folder after its first file.
CallCreateCollage ==
    /\ cpc = "idle"
    /\ Len(failed_images) < MaxLog
    /\ \E first \in 1..2, index \in 1..2 :
         /\ first <= Len(folder) + 1
         /\ call' = [images |-> Refs(first, Len(folder)), collage_index |-> index]
    /\ loaded_images' = EmptyLoaded
    /\ plan' = NoPlan /\ placed' = <<>> /\ alpha' = <<>> /\ warnings' = <<>>
    /\ cpc' = "load"
    /\ UNCHANGED <<settings, mask_file, returned>>
    /\ UNCHANGED <<runVars, pureVars, menuVars, guiVars>>

\* The load loop.
LoadAllImages ==
    /\ cpc = "load"
    /\ LET r == LoadAll(call.images, 1)
       IN  /\ loaded_images' = loaded_images \o r.img
           /\ failed_images' = failed_images \o r.log
    /\ cpc' = "plan"
    /\ UNCHANGED <<settings, mask_file, call, plan, placed, alpha, warnings, returned>>
    /\ UNCHANGED <<mode, png_var, jpg_var, folder, images_per_collage, pc, images,
                   groups, gi, li, loaded, canvas, successful, outputs, files,
                   out_dir, events>>
    /\ UNCHANGED <<pureVars, menuVars, guiVars>>

\* "if not loaded_images: return None", else the grid and the geometry.
PlanGrid ==
    /\ cpc = "plan"
    /\ IF NothingLoaded(loaded_images)
       THEN /\ warnings' = Append(warnings, "No valid images for collage")
            /\ cpc' = "return"
            /\ UNCHANGED <<plan, settings>>
       ELSE /\ plan' = PlanCells(settings, Len(loaded_images))
            /\ settings' = SettingsAfterPlan(settings, plan')
            /\ cpc' = "place"
            /\ UNCHANGED warnings
    /\ UNCHANGED <<mask_file, call, loaded_images, placed, alpha, returned>>
    /\ UNCHANGED <<runVars, pureVars, menuVars, guiVars>>

\* One iteration of the placement loop.
PasteCell ==
    /\ cpc = "place"
    /\ LET idx == Len(placed)
       IN  /\ placed' = Append(placed, PlaceCell(settings, plan, idx, loaded_images[idx + 1]))
           /\ cpc' = IF idx + 1 = Len(loaded_images) THEN "mask" ELSE "place"
    /\ UNCHANGED <<settings, mask_file, call, loaded_images, plan, alpha, warnings, returned>>
    /\ UNCHANGED <<runVars, pureVars, menuVars, guiVars>>

\* Lines 278-288: the silhouette mask replaces the alpha of the canvas.
ApplyShapeMask ==
    /\ cpc = "mask"
    /\ IF NeedsMask(settings.shape)
       THEN LET m == CreateShapeMask(settings.canvas_size, settings.shape,
                                     settings.custom_mask_path, mask_file)
            IN  /\ alpha' = Append(alpha, m.mask)
                /\ warnings' = warnings \o m.warn
       ELSE UNCHANGED <<alpha, warnings>>
    /\ cpc' = "return"
    /\ UNCHANGED <<settings, mask_file, call, loaded_images, plan, placed, returned>>
    /\ UNCHANGED <<runVars, pureVars, menuVars, guiVars>>

\* create_collage returns to its caller.
ReturnCollage ==
    /\ cpc = "return"
    /\ returned' = LastTwo(Append(returned,
           [images |-> call.images, collage_index |-> call.collage_index,
            log |-> failed_images,
            collage |-> IF NothingLoaded(loaded_images) THEN NoCollage
                        ELSE Collage(settings.canvas_size, placed, alpha)]))
    /\ cpc' = "idle"
    /\ UNCHANGED <<settings, mask_file, call, loaded_images, plan, placed, alpha, warnings>>
    /\ UNCHANGED <<runVars, pureVars, menuVars, guiVars>>

NextCompose ==
    \/ CallCreateCollage
    \/ LoadAllImages
    \/ PlanGrid
    \/ PasteCell
    \/ ApplyShapeMask
    \/ ReturnCollage

SpecCompose == InitCompose /\ [][NextCompose]_vars

\* ------------------------------------------------------ main.py, the menu loop

\* What the user types at a prompt for a number: digits that int() parses to
\* val, or text that int() rejects with ValueError.
Typed(v) == [parses |-> TRUE, val |-> v]
NotANumber == [parses |-> FALSE, val |-> 0]

\* The answers to the prompts of get_custom_settings.
CustomAnswers ==
    {[size |-> sz, images_per |-> ip, spacing |-> sp, frame |-> fr,
      corners |-> "y", shadow |-> sh, shape |-> shp, mask |-> mk] :
        sz \in {<<Typed(3000), Typed(3000)>>, <<Typed(0), Typed(90)>>,
                <<NotANumber, Typed(60)>>},
        ip \in {Typed(0 - 1), Typed(0), Typed(2), NotANumber},
        sp \in {Typed(0 - 1), Typed(5)},
        fr \in {Typed(0 - 1), Typed(20)},
        sh \in {"y", "n"},
        shp \in {"square", "custom"},
        mk \in {"", "mask.png"}}

\* get_custom_settings: the Settings built from the answers; the defaults if
\* an answer does not parse.
GetCustomSettings(a) ==
    IF /\ a.size[1].parses /\ a.size[2].parses /\ a.images_per.parses
       /\ a.spacing.parses /\ a.frame.parses
    THEN [DefaultSettings EXCEPT
            !.canvas_size = <<a.size[1].val, a.size[2].val>>,
            !.images_per_collage = a.images_per.val,
            !.inner_spacing = a.spacing.val,
            !.outer_frame_thickness = a.frame.val,
            !.enable_rounded_corners = (a.corners = "y"),
            !.enable_drop_shadow = (a.shadow = "y"),
            !.shape = a.shape,
            !.custom_mask_path = IF a.shape = "custom" /\ Truthy(a.mask)
                                 THEN a.mask ELSE None]
    ELSE DefaultSettings

\* range(0, n, 0) raises ValueError.
ZeroStep(step) == step = 0

\* split_into_groups for a step other than 0: range(0, n, step) is empty for
\* a negative step.
SplitWith(list, group_size) ==
    IF group_size < 0 THEN <<>> ELSE SplitIntoGroups(list, group_size)

\* run_generator(settings, input_folder): what became of the run.
RunGenerator(choice, st, dir, confirm) ==
    LET scanned == ScanFolder(dir)
        run == [NoRun EXCEPT !.choice = choice, !.settings = st]
    IN  IF Len(scanned) = 0 THEN [run EXCEPT !.outcome = "no_images"]
        ELSE IF confirm # "y" THEN [run EXCEPT !.outcome = "cancelled"]
        ELSE IF ZeroStep(st.images_per_collage)
        THEN [run EXCEPT !.outcome = "ValueError", !.split_ran = TRUE,
                         !.group_size = st.images_per_collage]
        ELSE [run EXCEPT !.outcome = "generated", !.split_ran = TRUE,
                         !.group_size = st.images_per_collage,
                         !.groups = Len(SplitWith(scanned, st.images_per_collage))]

\* An exception that leaves run_generator leaves main() too.
AfterRun(run) == IF run.outcome = "ValueError" THEN "crashed" ELSE "menu"

MenuFolders == {<<>>, <<"ok">>, <<"ok", "corrupt", "ok">>}

InitMenu ==
    /\ \E dir \in MenuFolders : RunIdleFor(dir)
    /\ PureIdle
    /\ settings = DefaultSettings /\ mask_file = "bad"
    /\ call = [images |-> <<>>, collage_index |-> 0]
    /\ cpc = "off" /\ loaded_images = <<>> /\ plan = NoPlan
    /\ placed = <<>> /\ alpha = <<>> /\ warnings = <<>> /\ returned = <<>>
    /\ mpc = "menu"
    /\ ran = NoRun
    /\ GuiIdle

menuKept == <<mask_file, call, cpc, loaded_images, plan, placed, alpha,
              warnings, returned>>

\* choice == "2"
ChooseDefault ==
    /\ mpc = "menu"
    /\ \E confirm \in {"y", "n"} :
         LET run == RunGenerator("2", settings, folder, confirm)
         IN  ran' = run /\ mpc' = AfterRun(run)
    /\ UNCHANGED settings
    /\ UNCHANGED <<runVars, pureVars, menuKept, guiVars>>

\* choice == "3"
ChooseCustom ==
    /\ mpc = "menu"
    /\ \E a \in CustomAnswers, confirm \in {"y", "n"} :
         LET st == GetCustomSettings(a)
             run == RunGenerator("3", st, folder, confirm)
         IN  settings' = st /\ ran' = run /\ mpc' = AfterRun(run)
    /\ UNCHANGED <<runVars, pureVars, menuKept, guiVars>>

\* choice == "5"
ChooseExit ==
    /\ mpc = "menu"
    /\ mpc' = "exited"
    /\ UNCHANGED <<settings, ran>>
    /\ UNCHANGED <<runVars, pureVars, menuKept, guiVars>>

NextMenu ==
    \/ ChooseDefault
    \/ ChooseCustom
    \/ ChooseExit

SpecMenu == InitMenu /\ [][NextMenu]_vars


\* ------------------------------------------------- the GUI window's events
\* __init__: no photo, nothing running.
InitGui ==
    /\ RunIdle
    /\ PureIdle
    /\ ComposeIdle
    /\ MenuIdle
    /\ GuiIdle

guiKept == <<runVars, pureVars, composeVars, menuVars>>

\* add_photos: the dialog returns some files, in the order chosen.
AddPhotos ==
    /\ \E picks \in SeqsUpTo({Disk[k] : k \in DOMAIN Disk}, MaxPick) :
         /\ picks # <<>>
         /\ LET st == AddEach([photos |-> photos, rows |-> photo_listbox], picks)
            IN  photos' = st.photos /\ photo_listbox' = st.rows
    /\ UNCHANGED <<selection, shape_needs_mask, is_generating, workers>>
    /\ UNCHANGED guiKept

\* add_folder: every image file of the folder, sorted.
AddFolder ==
    /\ \E dir \in Folders :
         LET HasImageExtension(path) == Suffix(path) \in ImageExtensions
             found == SelectSeq(Listing(dir), HasImageExtension)
             st == AddEach([photos |-> photos, rows |-> photo_listbox], found)
         IN  photos' = st.photos /\ photo_listbox' = st.rows
    /\ UNCHANGED <<selection, shape_needs_mask, is_generating, workers>>
    /\ UNCHANGED guiKept

\* The user adds a row of the listbox to the selection or takes one out
\* (selectmode EXTENDED).
SelectRows ==
    /\ \E row \in 0..(Len(photo_listbox) - 1) :
         selection' = IF row \in selection THEN selection \ {row}
                                           ELSE selection \cup {row}
    /\ UNCHANGED <<photos, photo_listbox, shape_needs_mask, is_generating, workers>>
    /\ UNCHANGED guiKept

\* remove_selected
RemoveSelected ==
    /\ selection # {}
    /\ LET st == RemoveRows([photos |-> photos, rows |-> photo_listbox], selection)
       IN  photos' = st.photos /\ photo_listbox' = st.rows
    /\ selection' = {}
    /\ UNCHANGED <<shape_needs_mask, is_generating, workers>>
    /\ UNCHANGED guiKept

\* clear_photos
ClearPhotos ==
    /\ photos # <<>>
    /\ photos' = <<>>
    /\ photo_listbox' = <<>>
    /\ selection' = {}
    /\ UNCHANGED <<shape_needs_mask, is_generating, workers>>
    /\ UNCHANGED guiKept

\* The user picks another shape, or picks or drops the mask file.
ChooseShape ==
    /\ shape_needs_mask' = ~shape_needs_mask
    /\ UNCHANGED <<photos, photo_listbox, selection, is_generating, workers>>
    /\ UNCHANGED guiKept

\* The two early returns shared by the three requests.
Refused == photos = <<>> \/ shape_needs_mask

\* generate_preview
GeneratePreview ==
    /\ ~Refused
    /\ ~is_generating
    /\ is_generating' = TRUE
    /\ workers' = Append(workers, Worker("preview", "try", FALSE))
    /\ UNCHANGED <<photos, photo_listbox, selection, shape_needs_mask>>
    /\ UNCHANGED guiKept

\* generate_collage
GenerateCollage ==
    /\ ~Refused
    /\ ~is_generating
    /\ is_generating' = TRUE
    /\ workers' = Append(workers, Worker("generate", "try", FALSE))
    /\ UNCHANGED <<photos, photo_listbox, selection, shape_needs_mask>>
    /\ UNCHANGED guiKept

\* save_collage, with a file name chosen in the dialog
SaveCollage ==
    /\ ~Refused
    /\ Len(workers) < MaxWorkers
    /\ workers' = Append(workers, Worker("save", "try", FALSE))
    /\ UNCHANGED <<photos, photo_listbox, selection, shape_needs_mask, is_generating>>
    /\ UNCHANGED guiKept

\* The try block of _generate_preview_thread or _generate_collage_thread
\* runs to its end or raises; either way the finally clause is next.
WorkerTry ==
    /\ \E i \in DOMAIN workers, raised \in BOOLEAN :
         /\ SetsBusy(workers[i].kind)
         /\ workers[i].pc = "try"
         /\ workers' = [workers EXCEPT ![i] = Worker(workers[i].kind, "finally", raised)]
    /\ UNCHANGED <<photos, photo_listbox, selection, shape_needs_mask, is_generating>>
    /\ UNCHANGED guiKept

\* Its finally clause, after which the thread ends.
WorkerFinally ==
    /\ \E i \in DOMAIN workers :
         /\ SetsBusy(workers[i].kind)
         /\ workers[i].pc = "finally"
         /\ workers' = Without(workers, i)
    /\ is_generating' = FinallyResetsFlag(is_generating)
    /\ UNCHANGED <<photos, photo_listbox, selection, shape_needs_mask>>
    /\ UNCHANGED guiKept

\* save_thread: try and except only; the thread ends after either.
SaveThread ==
    /\ \E i \in DOMAIN workers :
         /\ workers[i].kind = "save"
         /\ workers' = Without(workers, i)
    /\ UNCHANGED <<photos, photo_listbox, selection, shape_needs_mask, is_generating>>
    /\ UNCHANGED guiKept

NextGui ==
    \/ AddPhotos
    \/ AddFolder
    \/ SelectRows
    \/ RemoveSelected
    \/ ClearPhotos
    \/ ChooseShape
    \/ GeneratePreview
    \/ GenerateCollage
    \/ SaveCollage
    \/ WorkerTry
    \/ WorkerFinally
    \/ SaveThread

SpecGui == InitGui /\ [][NextGui]_vars

\* Every thread that is alive is scheduled again.
SpecGuiFair ==
    /\ SpecGui
    /\ WF_vars(WorkerTry)
    /\ WF_vars(WorkerFinally)
    /\ WF_vars(SaveThread)



\* ------------------------------------------------------------- claims
Range(s) == {s[k] : k \in DOMAIN s}

RECURSIVE Concat(_)
Concat(ss) == IF Len(ss) = 0 THEN <<>> ELSE Head(ss) \o Concat(Tail(ss))

IsOk(ref) == folder[ref] = "ok"
IsCorrupt(ref) == folder[ref] = "corrupt"
DecodableOf(refs) == SelectSeq(refs, IsOk)
CorruptOf(refs) == SelectSeq(refs, IsCorrupt)
AllCorrupt(g) == DecodableOf(groups[g]) = <<>>

EventsOf(g, step) ==
    {k \in DOMAIN events : events[k].g = g /\ events[k].step = step}
IsLoad(e) == e.step = "load"
LoadsOf(g) ==
    LET OfGroup(e) == e.g = g /\ e.step = "load"
        evs == SelectSeq(events, OfGroup)
    IN  [k \in DOMAIN evs |-> evs[k].val]

\* The load loop of group g has ended.
GroupLoaded(g) == g < gi \/ (g = gi /\ pc # "load")
\* The loop iteration of group g has ended, or the run has.
GroupOver(g) ==
    g < gi \/ (g = gi /\ pc \in {"group_end", "report", "done", "aborted"})
RunOver == pc \in {"report", "done", "aborted"}

\* C1: a decode failure of one reference never aborts its group: once the
\* load loop of a group has ended, every reference of the group has been
\* attempted in order, each failing one is in failed_images, the loaded
\* images are exactly the decodable references in order, the collage is
\* composed from them, and no run ends on a load.
C1_DecodeFailureIsLocal ==
    /\ \A g \in 1..Len(groups) :
         GroupLoaded(g) =>
           /\ LoadsOf(g) = groups[g]
           /\ \A r \in Range(groups[g]) :
                ~IsOk(r) => r \in Range(failed_images)
    /\ (pc \in {"compose", "png", "jpg"} => loaded = DecodableOf(groups[gi]))
    /\ (canvas.made => canvas.cells = DecodableOf(groups[gi]))
    /\ (pc = "aborted" => ~IsLoad(events[Len(events)]))

C1_Witness ==
    /\ pc = "png"
    /\ canvas.made
    /\ Len(groups[gi]) >= 3
    /\ IsCorrupt(groups[gi][2])
    /\ IsOk(groups[gi][1])
    /\ IsOk(groups[gi][3])

\* C2: a group whose images all fail to decode yields no collage, no export
\* attempt and no output file, is not counted in successful, does not end
\* the run, and the following group is started.
C2_EmptyGroupSkipped ==
    /\ \A g \in 1..Len(groups) :
         AllCorrupt(g) =>
           /\ \A f \in {"png", "jpg"} : <<g, f>> \notin outputs
           /\ EventsOf(g, "compose") = {}
           /\ EventsOf(g, "png") = {}
           /\ EventsOf(g, "jpg") = {}
           /\ (g = gi => ~canvas.made)
           /\ ~(pc = "aborted" /\ gi = g)
           /\ (GroupOver(g) => EventsOf(g, "empty") # {})
           /\ (g < gi /\ GroupLoaded(g + 1) => EventsOf(g + 1, "load") # {})
           /\ (g = gi /\ g < Len(groups) => ~RunOver)
    /\ successful <= Cardinality({g \in 1..gi : ~AllCorrupt(g)})

C2_Witness ==
    /\ Len(groups) >= 3
    /\ AllCorrupt(2)
    /\ <<1, "png">> \in outputs
    /\ <<3, "jpg">> \in outputs
    /\ successful = 2
    /\ pc = "done"

\* C3: concatenating the groups split_into_groups returns, in order, gives
\* back the input list.
C3_ConcatReproducesInput ==
    (fn = "split_into_groups" /\ res.set) => Concat(res.val) = arg.images

C3_Witness ==
    /\ fn = "split_into_groups"
    /\ res.set
    /\ arg.images = <<1, 2, 2, 3, 1>>
    /\ arg.group_size = 2
    /\ Len(res.val) = 3

\* C4: split_into_groups returns ceil(L/s) groups, all of length s except
\* the last, whose length is in 1..s; no group is empty and an empty input
\* gives no group.
C4_GroupLengths ==
    (fn = "split_into_groups" /\ res.set) =>
        LET L == Len(arg.images)
            s == arg.group_size
            G == res.val
        IN  /\ Len(G) * s >= L
            /\ (Len(G) - 1) * s < L
            /\ \A k \in 1..(Len(G) - 1) : Len(G[k]) = s
            /\ \A k \in 1..Len(G) : Len(G[k]) \in 1..s
            /\ (L = 0 => G = <<>>)

C4_Witness ==
    /\ fn = "split_into_groups"
    /\ res.set
    /\ Len(arg.images) = 5
    /\ arg.group_size = 3
    /\ Len(res.val) = 2
    /\ Len(res.val[2]) = 2

\* C5: for n > 0 calculate_grid returns rows * cols >= n with
\* cols = ceil(sqrt(n)) (the least c with c*c >= n) and rows = ceil(n/cols)
\* (the least r with r*cols >= n): the increment loop changes nothing.
C5_GridIsFirstCandidate ==
    (fn = "calculate_grid" /\ res.set /\ arg.num_images > 0) =>
        LET n == arg.num_images
            rows == res.val.rows
            cols == res.val.cols
        IN  /\ rows * cols >= n
            /\ cols >= 1
            /\ cols * cols >= n
            /\ (cols - 1) * (cols - 1) < n
            /\ rows >= 1
            /\ (rows - 1) * cols < n

C5_Witness ==
    /\ fn = "calculate_grid"
    /\ res.set
    /\ arg.num_images = 50
    /\ res.val = [rows |-> 7, cols |-> 8]

\* C6 (as claimed): after a run the failure log holds exactly the corrupt
\* references of the input, once each and in input order, and the cells
\* rendered over all canvases number inputs minus failure-log entries.
RECURSIVE CellsRendered(_)
CellsRendered(evs) ==
    IF Len(evs) = 0 THEN 0
    ELSE (IF Head(evs).step = "compose" /\ Head(evs).ok
          THEN Head(evs).val ELSE 0) + CellsRendered(Tail(evs))

C6_LogAndCellsAfterRun ==
    pc \in {"done", "aborted"} =>
        /\ failed_images = CorruptOf(images)
        /\ CellsRendered(events) = Len(images) - Len(failed_images)

\* C7: groups are processed in input sequence without overlap: the steps
\* taken are ordered by group index, no step and no output belongs to a
\* group after the current one, and every group before the current one has
\* all its loads behind it.
C7_GroupsInSequence ==
    /\ \A p, q \in DOMAIN events : p < q => events[p].g <= events[q].g
    /\ \A k \in DOMAIN events : events[k].g \in 1..gi
    /\ \A o \in outputs : o[1] \in 1..gi
    /\ \A g \in 1..Len(groups) : g < gi => LoadsOf(g) = groups[g]

C7_Witness ==
    /\ Len(groups) >= 2
    /\ gi = 2
    /\ <<1, "png">> \in outputs
    /\ <<1, "jpg">> \in outputs
    /\ <<2, "png">> \in outputs

\* C8 (as claimed): when one of the two writes of a group fails, the write
\* of the other format (if wanted) is attempted all the same: the JPG write
\* after a failed PNG write, the PNG write before a failed JPG write.
C8_OtherFormatStillAttempted ==
    \A k \in DOMAIN events :
        /\ (events[k].step = "png" /\ ~events[k].ok /\ jpg_var
                /\ GroupOver(events[k].g))
           => EventsOf(events[k].g, "jpg") # {}
        /\ (events[k].step = "jpg" /\ ~events[k].ok /\ png_var)
           => EventsOf(events[k].g, "png") # {}

\* C9 (as claimed): only the absence of input ends a run without its
\* completion report; a failure in one group leaves the later groups to be
\* processed.
C9_OnlyNoInputHalts ==
    /\ (pc = "aborted" => Len(images) = 0)
    /\ \A k \in DOMAIN events :
         (~events[k].ok /\ events[k].g < Len(groups) /\ RunOver)
         => EventsOf(events[k].g + 1, "load") # {}

\* C10 (as claimed): when no file of the input decodes, the run stops before
\* any group is processed: nothing is loaded, nothing is written.
C10_NoDecodableAborts ==
    (pc # "start" /\ \A k \in DOMAIN folder : folder[k] # "ok") =>
        /\ pc = "no_input"
        /\ events = <<>>
        /\ outputs = {}

\* C10 (amended): when the scanned list is empty (no file with a supported
\* image extension), the run stops before any group is processed: no
\* partition, no output folder, no load, no output, no report.
C10_NoImageFilesAborts ==
    (pc # "start" /\ \A k \in DOMAIN folder : folder[k] = "other") =>
        /\ pc = "no_input"
        /\ groups = <<>>
        /\ ~out_dir
        /\ events = <<>>
        /\ outputs = {}

C10_Witness ==
    /\ pc = "no_input"
    /\ Len(folder) >= 2
    /\ \A k \in DOMAIN folder : folder[k] = "other"

\* The number a sequence of decimal digits stands for.
RECURSIVE DigitsValue(_)
DigitsValue(d) ==
    IF Len(d) = 0 THEN 0
    ELSE 10 * DigitsValue(SubSeq(d, 1, Len(d) - 1)) + d[Len(d)]

WriteOk(g, fmt) == \E k \in EventsOf(g, fmt) : events[k].ok

C12_CountsMatchFilesWritten ==
    pc = "done" =>
        /\ Len(groups) = Len(SplitIntoGroups(images, images_per_collage))
        /\ successful = Cardinality({g \in 1..Len(groups) :
                                        \E f \in files : f.g = g})

\* The loop iteration of group g has ended and the run has gone on.
IterationOver(g) == g < gi \/ (g = gi /\ pc \in {"report", "done"})

\* Exactly one progress update for every group whose iteration is over, none
\* for a group still in progress or not begun; the update comes after every
\* step of its group and before every step of a later group.
OneNotificationPerGroup ==
    \A g \in 1..Len(groups) :
        LET P == EventsOf(g, "progress")
        IN  /\ (IterationOver(g) => Cardinality(P) = 1)
            /\ (~IterationOver(g) => P = {})
            /\ \A k \in P : \A j \in DOMAIN events :
                 /\ (events[j].g = g => j <= k)
                 /\ (events[j].g > g => j > k)

Cropped == fn = "smart_crop" /\ res.set

BoxWidth(box) == box[3] - box[1]
BoxHeight(box) == box[4] - box[2]

\* C15: for every source and target of at least 1 x 1, smart_crop returns the
\* target size; only the dimension too long for the target ratio is cut,
\* equally on both sides (to within one pixel), and the crop box lies inside
\* the source and has at least one pixel on each axis.
C15_SmartCropBox ==
    Cropped =>
        LET img == arg.img
            box == res.val.box
        IN  /\ res.val.size = Image(arg.target[1], arg.target[2])
            /\ (IsWider(img, arg.target) => box[2] = 0 /\ box[4] = img.height)
            /\ (~IsWider(img, arg.target) => box[1] = 0 /\ box[3] = img.width)
            /\ box[1] >= 0 /\ box[2] >= 0
            /\ box[3] <= img.width /\ box[4] <= img.height
            /\ (img.width - box[3]) - box[1] \in {0, 1}
            /\ (img.height - box[4]) - box[2] \in {0, 1}
            /\ BoxWidth(box) >= 1 /\ BoxHeight(box) >= 1

\* ---- create_collage

\* The images of refs that decode, in order.
DecodedOf(refs) == LoadAll(refs, 1).img

\* The silhouette is Custom and its mask file is named but cannot be read.
CustomUnreadable ==
    /\ settings.shape = "custom"
    /\ Truthy(settings.custom_mask_path)
    /\ mask_file = "bad"

\* C13: with shape Custom and a mask file that fails to load, the mask put on
\* the canvas is fully opaque (the Rectangle silhouette), the warning is
\* printed, and every call with a decodable image returns a canvas.
C13_UnreadableMaskFallsBack ==
    CustomUnreadable =>
        /\ (cpc = "return" /\ DecodedOf(call.images) # <<>> =>
              /\ Len(alpha) = 1
              /\ Opaque(alpha[1])
              /\ alpha[1].size = settings.canvas_size
              /\ "Could not load custom mask, using square" \in Range(warnings))
        /\ \A k \in DOMAIN returned :
              DecodedOf(returned[k].images) # <<>> =>
                  /\ returned[k].collage.made
                  /\ Len(returned[k].collage.alpha) = 1
                  /\ Opaque(returned[k].collage.alpha[1])

C13_Witness ==
    /\ CustomUnreadable
    /\ returned # <<>>
    /\ returned[1].collage.made
    /\ Opaque(returned[1].collage.alpha[1])

\* C14: two calls of create_collage on one generator whose arguments decode to
\* the same list of images return the same canvas, whatever their collage
\* index, the failure log at their time and the calls before them.
C14_SameImagesSameCanvas ==
    \A i, j \in DOMAIN returned :
        DecodedOf(returned[i].images) = DecodedOf(returned[j].images)
            => returned[i].collage = returned[j].collage

C14_Witness ==
    /\ Len(returned) = 2
    /\ returned[1].collage.made
    /\ DecodedOf(returned[1].images) = DecodedOf(returned[2].images)
    /\ returned[1].images # returned[2].images
    /\ returned[1].collage_index # returned[2].collage_index
    /\ returned[1].log # returned[2].log
    /\ returned[1].collage = returned[2].collage

\* C16: with the drop shadow on, the image pasted in a cell has the size of
\* its content grown by |dx| + 2*blur and |dy| + 2*blur, for offsets of either
\* sign, and its paste position centres that grown size in the cell.
C16_ShadowGrowsAndIsCentred ==
    settings.enable_drop_shadow =>
        \A k \in DOMAIN placed :
            LET c == placed[k]
                dx == settings.shadow_offset[1]
                dy == settings.shadow_offset[2]
                blur == settings.shadow_blur
                pitch_w == plan.cell_w + settings.inner_spacing
                pitch_h == plan.cell_h + settings.inner_spacing
            IN  /\ c.width = c.content[1] + Abs(dx) + 2 * blur
                /\ c.height = c.content[2] + Abs(dy) + 2 * blur
                /\ c.x = settings.outer_frame_thickness + c.col * pitch_w
                           + (plan.cell_w - c.width) \div 2
                /\ c.y = settings.outer_frame_thickness + c.row * pitch_h
                           + (plan.cell_h - c.height) \div 2

C16_Witness ==
    /\ settings.enable_drop_shadow
    /\ settings.shadow_offset[1] < 0
    /\ settings.shadow_blur > 0
    /\ Len(placed) >= 2
    /\ placed[2].width > placed[2].content[1]
    /\ placed[2].x # settings.outer_frame_thickness
                       + placed[2].col * (plan.cell_w + settings.inner_spacing)
                       + (plan.cell_w - placed[2].content[1]) \div 2

\* The cells of the planned grid that hold an image.
Occupied == {<<placed[k].row, placed[k].col>> : k \in DOMAIN placed}

\* Every image of the call has been pasted.
AllPlaced == cpc \in {"mask", "return"} /\ placed # <<>>

\* C20: the grid is the one for the number of decoded images; the i-th
\* decoded image (from 0, failed images skipped) is in row i div cols and
\* column i mod cols, inside the grid; no two images share a cell; and once
\* all are placed the rows*cols - count cells left are the last ones in
\* row-major order (7 images: 3 x 3 with 2 left).
C20_RowMajorPlacement ==
    LET decoded == DecodedOf(call.images)
        count == Len(decoded)
        grid == CalculateGrid(count)
    IN  /\ (placed # <<>> => plan.rows = grid.rows /\ plan.cols = grid.cols)
        /\ \A k \in DOMAIN placed :
             /\ placed[k].img = decoded[k]
             /\ placed[k].row = (k - 1) \div grid.cols
             /\ placed[k].col = (k - 1) % grid.cols
             /\ placed[k].row < grid.rows
        /\ Cardinality(Occupied) = Len(placed)
        /\ (AllPlaced =>
              /\ Len(placed) = count
              /\ \A r \in 0..(grid.rows - 1), c \in 0..(grid.cols - 1) :
                    <<r, c>> \in Occupied <=> r * grid.cols + c < count
              /\ grid.rows * grid.cols - Cardinality(Occupied) = grid.rows * grid.cols - count
              /\ (count = 7 => grid.rows = 3 /\ grid.cols = 3
                                 /\ 9 - Cardinality(Occupied) = 2))

C20_Witness ==
    /\ AllPlaced
    /\ Len(call.images) = 8
    /\ ~Decodable(call.images[2])
    /\ Len(placed) = 7
    /\ placed[2].img = 3
    /\ plan.rows = 3 /\ plan.cols = 3
    /\ Cardinality({<<r, c>> \in (0..2) \X (0..2) : <<r, c>> \notin Occupied}) = 2

\* ---- the failure log

\* The references whose load failed during the current invocation, in order.
RECURSIVE FailedLoads(_)
FailedLoads(evs) ==
    IF evs = <<>> THEN <<>>
    ELSE LET e == evs[Len(evs)]
             before == FailedLoads(SubSeq(evs, 1, Len(evs) - 1))
         IN  IF e.step = "load" /\ ~e.ok THEN Append(before, e.val) ELSE before

\* C19: when a generate_all_collages invocation ends, the failure log holds
\* exactly the references that failed during that invocation, in the order
\* they failed, and nothing left from an earlier invocation on the generator.
C19_LogScopedToInvocation ==
    pc = "done" => failed_images = FailedLoads(events)

\* ---- Settings

\* The invariants the Settings are to satisfy.
ValidSettings(st) ==
    /\ st.canvas_size[1] > 0 /\ st.canvas_size[2] > 0
    /\ st.images_per_collage > 0
    /\ st.inner_spacing >= 0
    /\ st.outer_frame_thickness >= 0
    /\ st.shadow_blur >= 0

\* C18: no run partitions with Settings that break an invariant; in
\* particular split_into_groups is never run with a group size <= 0.
C18_InvalidSettingsRejected ==
    ran.split_ran => (ValidSettings(ran.settings) /\ ran.group_size > 0)

\* ---- the degenerate-size fallback

\* The shadow margin create_collage reserves on each side of a cell.
ReservedMargin ==
    IF settings.enable_drop_shadow
    THEN settings.shadow_blur
           + Max(Abs(settings.shadow_offset[1]), Abs(settings.shadow_offset[2]))
    ELSE 0

\* The grid is planned and the content size left for a cell is <= 0 on an axis.
Degenerate ==
    /\ plan.cols > 0
    /\ \/ plan.cell_w - 2 * ReservedMargin <= 0
       \/ plan.cell_h - 2 * ReservedMargin <= 0

\* The call in progress has a decodable image and has got as far as its end.
CallComposed == cpc = "return" /\ DecodedOf(call.images) # <<>>

\* C21 (as claimed): in the degenerate case every cell gets the content size
\* 10 x 10 and the shadow margin is 5, and the call does not fail.
C21_FallbackIsTenByTen ==
    Degenerate =>
        /\ plan.shadow_padding = 5
        /\ plan.img_w = 10 /\ plan.img_h = 10
        /\ \A k \in DOMAIN placed : placed[k].content = <<10, 10>>
        /\ (CallComposed => Len(placed) = Len(DecodedOf(call.images)))

\* C21 (amended): in the degenerate case every cell of the group gets the
\* same content size max(10, cell_w - 10) x max(10, cell_h - 10), which is at
\* least 10 x 10, the shadow margin is set to 5, and the call places every
\* decoded image and returns.
C21_FallbackAtLeastTen ==
    Degenerate =>
        /\ plan.shadow_padding = 5
        /\ plan.img_w = (IF plan.cell_w - 10 > 10 THEN plan.cell_w - 10 ELSE 10)
        /\ plan.img_h = (IF plan.cell_h - 10 > 10 THEN plan.cell_h - 10 ELSE 10)
        /\ plan.img_w >= 10 /\ plan.img_h >= 10
        /\ \A k \in DOMAIN placed : placed[k].content = <<plan.img_w, plan.img_h>>
        /\ (CallComposed => Len(placed) = Len(DecodedOf(call.images)))

C21_Witness ==
    /\ Degenerate
    /\ CallComposed
    /\ Len(placed) >= 2
    /\ placed[2].content[1] > 10
    /\ placed[2].content = placed[1].content

\* ---- the silhouette mask

Rectangular == settings.shape \in {"square", "rectangle"}

\* C22: the canvas gets the shape mask at most once, only when every decoded
\* image of the group has been pasted and only for a shape other than
\* Rectangle and Square; for those two its alpha is never replaced; a canvas
\* of another shape has got its mask, of the canvas size, when the call
\* returns; and every canvas returned has the configured canvas size.
C22_MaskOnceAfterCells ==
    /\ Len(alpha) <= 1
    /\ (cpc \in {"load", "plan", "place", "mask"} => alpha = <<>>)
    /\ (alpha # <<>> =>
          /\ ~Rectangular
          /\ Len(placed) = Len(DecodedOf(call.images))
          /\ alpha[1].size = settings.canvas_size)
    /\ (Rectangular => alpha = <<>>)
    /\ (CallComposed /\ ~Rectangular => Len(alpha) = 1)
    /\ \A k \in DOMAIN returned :
         returned[k].collage.made =>
             /\ returned[k].collage.size = settings.canvas_size
             /\ Len(returned[k].collage.alpha) = (IF Rectangular THEN 0 ELSE 1)
             /\ Len(returned[k].collage.cells) = Len(DecodedOf(returned[k].images))

C22_Witness ==
    /\ settings.shape = "heart"
    /\ returned # <<>>
    /\ returned[1].collage.made
    /\ Len(returned[1].collage.cells) >= 2
    /\ Len(returned[1].collage.alpha) = 1
    /\ returned[1].collage.size = <<90, 60>>

\* The silhouette is Custom and no mask file is named.
CustomWithoutPath ==
    settings.shape = "custom" /\ ~Truthy(settings.custom_mask_path)

\* C23: with shape Custom and custom_mask_path None or empty, the mask put on
\* the canvas is fully opaque, so no returned canvas is wholly transparent.
C23_MissingPathFallsBack ==
    CustomWithoutPath =>
        /\ \A k \in DOMAIN alpha : Opaque(alpha[k]) /\ ~Blank(alpha[k])
        /\ \A k \in DOMAIN returned : \A j \in DOMAIN returned[k].collage.alpha :
             ~Blank(returned[k].collage.alpha[j])

\* ---- Settings during a run

\* C24: no step of create_collage, its degenerate-size fallback included,
\* changes any field of the generator's Settings.
C24_SettingsNeverChange == [][settings' = settings]_vars

C24_Witness ==
    /\ Len(returned) = 2
    /\ returned[2].collage.made
    /\ plan.fallback
    /\ plan.shadow_padding # settings.shadow_blur
    /\ settings \in ComposeSettings

\* ---- the menu loop

\* C25: a run started with menu option 2 uses the default Settings, whatever
\* was chosen before it.
C25_OptionTwoRunsDefaults ==
    (ran.choice = "2" /\ ran.outcome = "generated") => ran.settings = DefaultSettings

\* ---- cells on the canvas

\* The left and upper edge of the slot of a cell.
SlotX(c) == settings.outer_frame_thickness + c.col * (plan.cell_w + settings.inner_spacing)
SlotY(c) == settings.outer_frame_thickness + c.row * (plan.cell_h + settings.inner_spacing)

\* The pasted image of c lies inside the slot of c.
InSlot(c) ==
    /\ c.width <= plan.cell_w /\ c.height <= plan.cell_h
    /\ SlotX(c) <= c.x /\ c.x + c.width <= SlotX(c) + plan.cell_w
    /\ SlotY(c) <= c.y /\ c.y + c.height <= SlotY(c) + plan.cell_h

\* The pasted image of c lies on the canvas, inside the outer frame.
InFrame(c) ==
    /\ settings.outer_frame_thickness <= c.x
    /\ c.x + c.width <= settings.canvas_size[1] - settings.outer_frame_thickness
    /\ settings.outer_frame_thickness <= c.y
    /\ c.y + c.height <= settings.canvas_size[2] - settings.outer_frame_thickness

\* The pasted images of c and d have no pixel in common.
Disjoint(c, d) ==
    \/ c.x + c.width <= d.x \/ d.x + d.width <= c.x
    \/ c.y + c.height <= d.y \/ d.y + d.height <= c.y

\* C26: with Settings that satisfy the invariants, every pasted image lies in
\* its own slot and so inside the frame of the canvas, and no two pasted
\* images overlap, in the normal and in the fallback path.
C26_CellsFitAndAreDisjoint ==
    ValidSettings(settings) =>
        /\ \A k \in DOMAIN placed : InSlot(placed[k]) /\ InFrame(placed[k])
        /\ \A k, j \in DOMAIN placed : k # j => Disjoint(placed[k], placed[j])

\* The grid of the call in progress has been planned.
Planned == cpc \in {"place", "mask"} \/ CallComposed

\* C27: whatever the frame, spacing, blur and offset, a call with a decoded
\* image plans at least one row and one column and hands smart_crop a content
\* size of at least 1 x 1.
C27_GridAndContentPositive ==
    Planned =>
        /\ plan.rows >= 1 /\ plan.cols >= 1
        /\ plan.img_w >= 1 /\ plan.img_h >= 1
        /\ \A k \in DOMAIN placed :
             placed[k].content[1] >= 1 /\ placed[k].content[2] >= 1

C27_Witness ==
    /\ CallComposed
    /\ plan.cell_w < 0
    /\ placed # <<>>
    /\ placed[1].content[1] >= 1 /\ placed[1].content[2] >= 1

\* C28: whatever the order of Preview, Generate All and Save requests, at
\* most one background thread that composes collages is alive.
C28_AtMostOneWorker == Len(workers) <= 1

\* A preview or generate-all thread is alive.
BusyWorkerAlive == \E i \in DOMAIN workers : SetsBusy(workers[i].kind)

\* C29: is_generating is TRUE exactly while a preview or generate-all thread
\* is alive, whether its body raised or not, and a busy window always becomes
\* free again.
C29_BusyOnlyWhileWorking ==
    /\ [](is_generating <=> BusyWorkerAlive)
    /\ (is_generating ~> ~is_generating)

C29_Witness ==
    /\ is_generating
    /\ \E i \in DOMAIN workers :
         /\ workers[i].kind = "generate"
         /\ workers[i].pc = "finally"
         /\ workers[i].raised
    /\ \E i \in DOMAIN workers : workers[i].kind = "save"

NoDuplicatePath ==
    \A k, j \in DOMAIN photos : k # j => photos[k] # photos[j]

Aligned ==
    /\ Len(photo_listbox) = Len(photos)
    /\ \A k \in DOMAIN photos : photo_listbox[k] = PathName(photos[k])

\* The entries of seq from the k-th on whose rows are not in sel.
RECURSIVE KeepFrom(_, _, _)
KeepFrom(seq, sel, k) ==
    IF k > Len(seq) THEN <<>>
    ELSE (IF (k - 1) \in sel THEN <<>> ELSE <<seq[k]>>) \o KeepFrom(seq, sel, k + 1)

\* C30: the photo list never holds a path twice, the listbox has one row per
\* photo, row k showing the file name of photos[k], and remove_selected
\* removes exactly the photos of the selected rows.
C30_ListAndListboxAligned ==
    /\ [](NoDuplicatePath /\ Aligned)
    /\ [][RemoveSelected =>
            /\ photos' = KeepFrom(photos, selection, 1)
            /\ photo_listbox' = KeepFrom(photo_listbox, selection, 1)]_vars

C30_Witness ==
    /\ Len(photos) = 3
    /\ selection = {}
    /\ photo_listbox[1] = photo_listbox[3]
    /\ photos[1] # photos[3]
    /\ Suffix(photos[2]) = ".txt"


====
